---- MODULE Spec2Model ----
(***************************************************************************)
(* A model of MakiFlow's StemBlock (advanced_layers/stem.py), ClassRegHead *)
(* (models/ssd_pose/class_reg_head.py), the classificator training modules *)
(* (training_modules/maki_loss.py, ce_loss.py) and the Regressor model     *)
(* information (models/regressor/regressor.py).                            *)
(***************************************************************************)
EXTENDS Integers, Sequences, FiniteSets, TLC

(***************************************************************************)
(* Bounds of the model.                                                    *)
(***************************************************************************)
MaxInF == 2
MaxOutF == 2
MinHW == 26
MaxHW == 29
MaxFeat == 2
MaxDepth == 2
MaxPoints == 2
MaxCalls == 3
MaxEpochs == 2
MaxPeriod == 2
MaxBatches == 1
MaxGamma == 2

InFs == 1..MaxInF
OutFs == {<<a, b, c>> : a \in 1..MaxOutF, b \in 1..MaxOutF, c \in 1..MaxOutF}
Sizes == MinHW..MaxHW
BlockNames == {"stemblock"}
Activations == {"tf.nn.relu", "tf.nn.sigmoid"}

VARIABLES
    block,        \* the StemBlock object: name, in_f, out_f, f, layers, named_params_dict
    descriptor,   \* the last value returned by block.to_dict()
    restored,     \* the StemBlock built from descriptor's params
    ser,          \* "none", "described" (to_dict returned), "restored"
    X,            \* the tensor passed to forward
    is_training,  \* the flag passed to forward
    pc,           \* forward: "idle", "run", "done", "error"
    ip,           \* index of the next statement of forward
    FX, SX,       \* forward's two local tensors
    calls,        \* the layer.forward calls made so far, in order
    concats,      \* the tf.concat calls made so far, in order
    result,       \* the tensor forward returned
    err,          \* the error raised, "" when none
    \* ClassRegHead
    reg_f, class_f, humani_f,  \* the feature sources: height, width, depth
    n_points,     \* len(default_points)
    head_name,    \* self.name
    hpc,          \* __init__: "new", "checked", "heads", "done", "failed"
    head_layers,  \* the layers the head has created, in creation order
    head_tensors, \* the tensors the head has added to the graph, in order
    head_params,  \* the name-keyed collection of the head layers' parameters
    herr,         \* the error __init__ raised, NoError when none
    \* the classificator with its Maki and CE training modules
    training_vars_are_ready,  \* self._training_vars_are_ready
    maki_loss_is_built,   \* self._maki_loss_is_built
    maki_optimizer,       \* self._maki_optimizer, "None" while not set
    maki_train_op,        \* self._maki_train_op: the optimizer and loss that made it
    maki_loss,            \* self._final_maki_loss: the gamma it was built with, 0 if none
    ce_loss_is_built,     \* self._ce_loss_is_built
    ce_optimizer,         \* self._ce_optimizer, "None" while not set
    ce_train_op,          \* self._ce_train_op
    ce_log,               \* how often the CE loss was built, minimize called, variables initialised
    ncalls,               \* fit calls made so far
    fpc,                  \* fit: "idle" (no call), "loop", "test", "except", "returned", "raised"
    call,                 \* the arguments of the fit call in progress
    train_op,             \* fit's local train_op
    epoch,                \* fit's loop variable i
    iterator,             \* fit's iterator: "None", "open", "closed"
    train_costs, train_errors, test_costs, test_errors,  \* fit's lists
    caught,               \* the except clause of this call ran
    ret,                  \* the dictionary the call returned
    \* Regressor
    reg_model,    \* the Regressor: names of its input and output tensors, its name
    arch,         \* the architecture file: model_info and graph_info
    loaded,       \* the Regressor from_json returned
    rpc           \* "built", "saved", "loaded"

stemVars == <<block, descriptor, restored, ser, X, is_training, pc, ip, FX, SX,
              calls, concats, result, err>>

headVars == <<reg_f, class_f, humani_f, n_points, head_name, hpc, head_layers,
              head_tensors, head_params, herr>>

modelVars == <<training_vars_are_ready, maki_loss_is_built, maki_optimizer, maki_train_op,
               maki_loss, ce_loss_is_built, ce_optimizer, ce_train_op, ce_log>>

loopVars == <<epoch, iterator, train_costs, train_errors, test_costs, test_errors,
              caught>>

fitVars == <<modelVars, ncalls, fpc, call, train_op, loopVars, ret>>

regVars == <<reg_model, arch, loaded, rpc>>

vars == <<stemVars, headVars, fitVars, regVars>>

notStem == <<headVars, fitVars, regVars>>
notHead == <<stemVars, fitVars, regVars>>
notFit == <<stemVars, headVars, regVars>>
notReg == <<stemVars, headVars, fitVars>>

(***************************************************************************)
(* Layers.  A layer object is a record of its constructor arguments; attr  *)
(* is the attribute of the block that holds it.                            *)
(***************************************************************************)
ConvLayer(attr, kw, kh, stride, in_f, out_f, padding, name) ==
    [kind |-> "ConvLayer", attr |-> attr, name |-> name, kw |-> kw, kh |-> kh,
     stride |-> stride, padding |-> padding, in_f |-> in_f, out_f |-> out_f,
     activation |-> "None"]

BatchNormLayer(attr, D, name) ==
    [kind |-> "BatchNormLayer", attr |-> attr, name |-> name, kw |-> 0, kh |-> 0,
     stride |-> 1, padding |-> "", in_f |-> D, out_f |-> D, activation |-> "None"]

ActivationLayer(attr, activation) ==
    [kind |-> "ActivationLayer", attr |-> attr, name |-> "", kw |-> 0, kh |-> 0,
     stride |-> 1, padding |-> "", in_f |-> 0, out_f |-> 0, activation |-> activation]

\* MaxPoolLayer(ksize=[1,k,k,1], strides=[1,s,s,1], padding)
MaxPoolLayer(attr, k, s, padding) ==
    [kind |-> "MaxPoolLayer", attr |-> attr, name |-> "", kw |-> k, kh |-> k,
     stride |-> s, padding |-> padding, in_f |-> 0, out_f |-> 0, activation |-> "None"]

\* The parameter names a layer owns, scoped by the layer's name.
ParamKinds(layer) ==
    CASE layer.kind = "ConvLayer" -> {"ConvKernel", "ConvBias"}
      [] layer.kind = "BatchNormLayer" ->
             {"BatchMean", "BatchVar", "BatchGamma", "BatchBeta"}
      [] OTHER -> {}

ParamKey(layer, p) == <<p, layer.kw, layer.kh, layer.in_f, layer.out_f, layer.name>>

\* layer.get_params_dict(): parameter name -> the parameter (named by its owner)
LayerParamsDict(layer) ==
    LET keys == {ParamKey(layer, p) : p \in ParamKinds(layer)}
    IN  [k \in keys |-> layer.attr]

\* dict.update(other)
DictUpdate(d, other) ==
    [k \in DOMAIN d \cup DOMAIN other |-> IF k \in DOMAIN other THEN other[k] ELSE d[k]]

(***************************************************************************)
(* StemBlock.__init__                                                      *)
(***************************************************************************)
\* stem.py lines 50-63: the chain Conv1 -> Conv1 -> Conv2
ChainLayers(in_f, out_f, activation, name) ==
    << ConvLayer("conv1", 3, 3, 2, in_f, out_f[1], "VALID", name \o "_conv1"),
       BatchNormLayer("batch_norm1", out_f[1], name \o "_batch_norm1"),
       ActivationLayer("activ1", activation),
       ConvLayer("conv2", 3, 3, 1, out_f[1], out_f[1], "VALID", name \o "_conv2"),
       BatchNormLayer("batch_norm2", out_f[1], name \o "_batch_norm2"),
       ActivationLayer("activ2", activation),
       ConvLayer("conv3", 3, 3, 1, out_f[1], out_f[2], "SAME", name \o "conv3"),
       BatchNormLayer("batch_norm3", out_f[2], name \o "_batch_norm3"),
       ActivationLayer("activ3", activation) >>

\* Split 1 with conv3_R_1 declared for out_f[0] input feature maps.
Split1LayersWrongInF(out_f, activation, name) ==
    << MaxPoolLayer("maxpool1_L_1", 3, 2, "VALID"),
       ConvLayer("conv3_R_1", 3, 3, 2, out_f[1], out_f[3], "VALID", name \o "_conv3_R_1"),
       BatchNormLayer("batch_norm3_R_1", out_f[3], name \o "_batch_norm3_R_1"),
       ActivationLayer("activ3_R_1", activation) >>

\* stem.py lines 65-74: split 1
Split1Layers(out_f, activation, name) ==
    << MaxPoolLayer("maxpool1_L_1", 3, 2, "VALID"),
       ConvLayer("conv3_R_1", 3, 3, 2, out_f[2], out_f[3], "VALID", name \o "_conv3_R_1"),
       BatchNormLayer("batch_norm3_R_1", out_f[3], name \o "_batch_norm3_R_1"),
       ActivationLayer("activ3_R_1", activation) >>

\* Split 2's left part with conv4_L_2 left at the default padding.
Split2LeftLayersSamePadding(out_f, activation, name) ==
    LET in_f_split_1 == out_f[2] + out_f[3]
    IN << ConvLayer("conv4_L_1", 1, 1, 1, in_f_split_1, out_f[2], "SAME", name \o "_conv4_L_1"),
          BatchNormLayer("batch_norm4_L_1", out_f[2], name \o "_batch_norm4_L_1"),
          ActivationLayer("activ4_L_1", activation),
          ConvLayer("conv4_L_2", 3, 3, 1, out_f[2], out_f[3], "SAME", name \o "_conv4_L_2"),
          BatchNormLayer("batch_norm4_L_2", out_f[3], name \o "_batch_norm4_L_2"),
          ActivationLayer("activ4_L_2", activation) >>

\* stem.py lines 76-89: split 2, part left
Split2LeftLayers(out_f, activation, name) ==
    LET in_f_split_1 == out_f[2] + out_f[3]
    IN << ConvLayer("conv4_L_1", 1, 1, 1, in_f_split_1, out_f[2], "SAME", name \o "_conv4_L_1"),
          BatchNormLayer("batch_norm4_L_1", out_f[2], name \o "_batch_norm4_L_1"),
          ActivationLayer("activ4_L_1", activation),
          ConvLayer("conv4_L_2", 3, 3, 1, out_f[2], out_f[3], "VALID", name \o "_conv4_L_2"),
          BatchNormLayer("batch_norm4_L_2", out_f[3], name \o "_batch_norm4_L_2"),
          ActivationLayer("activ4_L_2", activation) >>

\* stem.py lines 91-110: split 2, part right
Split2RightLayers(out_f, activation, name) ==
    LET in_f_split_1 == out_f[2] + out_f[3]
    IN << ConvLayer("conv4_R_1", 1, 1, 1, in_f_split_1, out_f[2], "SAME", name \o "_conv4_R_1"),
          BatchNormLayer("batch_norm4_R_1", out_f[2], name \o "_batch_norm4_R_1"),
          ActivationLayer("activ4_R_1", activation),
          ConvLayer("conv4_R_2", 7, 1, 1, out_f[2], out_f[2], "SAME", name \o "_conv4_R_2"),
          BatchNormLayer("batch_norm4_R_2", out_f[2], name \o "_batch_norm4_R_2"),
          ActivationLayer("activ4_R_2", activation),
          ConvLayer("conv4_R_3", 1, 7, 1, out_f[2], out_f[2], "SAME", name \o "_conv4_R_3"),
          BatchNormLayer("batch_norm4_R_3", out_f[2], name \o "_batch_norm4_R_3"),
          ActivationLayer("activ4_R_3", activation),
          ConvLayer("conv4_R_4", 3, 3, 1, out_f[2], out_f[3], "VALID", name \o "_conv4_R_4"),
          BatchNormLayer("batch_norm4_R_4", out_f[3], name \o "_batch_norm4_R_4"),
          ActivationLayer("activ4_R_4", activation) >>

\* Split 3 with conv5_L_1 producing out_f[2] feature maps instead of out_f[2]*2.
Split3LayersHalfDepth(out_f, activation, name) ==
    LET in_f_split_2 == out_f[3] * 2
    IN << ConvLayer("conv5_L_1", 3, 3, 2, in_f_split_2, out_f[3], "VALID", name \o "_conv5_L_1"),
          BatchNormLayer("batch_norm5_L_1", out_f[3], name \o "_batch_norm5_L_1"),
          ActivationLayer("activ5_L_1", activation),
          MaxPoolLayer("maxpool5_L_1", 3, 2, "VALID") >>

\* stem.py lines 112-124: split 3
Split3Layers(out_f, activation, name) ==
    LET in_f_split_2 == out_f[3] * 2
    IN << ConvLayer("conv5_L_1", 3, 3, 2, in_f_split_2, in_f_split_2, "VALID", name \o "_conv5_L_1"),
          BatchNormLayer("batch_norm5_L_1", in_f_split_2, name \o "_batch_norm5_L_1"),
          ActivationLayer("activ5_L_1", activation),
          MaxPoolLayer("maxpool5_L_1", 3, 2, "VALID") >>

\* stem.py lines 128-131: named_params_dict.update(layer.get_params_dict()) per layer
RECURSIVE MergeParams(_, _)
MergeParams(layers, d) ==
    IF layers = <<>> THEN d
    ELSE MergeParams(Tail(layers), DictUpdate(d, LayerParamsDict(Head(layers))))

StemBlockNew(in_f, out_f, activation, name) ==
    LET layers == ChainLayers(in_f, out_f, activation, name)
                  \o Split1Layers(out_f, activation, name)
                  \o Split2LeftLayers(out_f, activation, name)
                  \o Split2RightLayers(out_f, activation, name)
                  \o Split3Layers(out_f, activation, name)
    IN [name |-> name, in_f |-> in_f, out_f |-> out_f, f |-> activation,
        layers |-> layers, named_params_dict |-> MergeParams(layers, <<>>)]

\* self.<attr>: the layer object the attribute holds
LayerOf(b, attr) == LET i == CHOOSE i \in DOMAIN b.layers : b.layers[i].attr = attr
                    IN  b.layers[i]

(***************************************************************************)
(* Tensors and the layers' forward rules.                                  *)
(* A tensor is its height, width and feature depth, the layout ch of its   *)
(* feature axis (which layer produced each run of channels, in order) and  *)
(* deps, everything it was computed from.                                  *)
(***************************************************************************)
NoTensor == [h |-> 0, w |-> 0, d |-> 0, ch |-> <<>>, deps |-> {}]

InputTensor(h, w, d) ==
    [h |-> h, w |-> w, d |-> d, ch |-> <<[by |-> "X", n |-> d]>>, deps |-> {"X"}]

\* Size along one axis after a kernel-k stride-s stage.
OutSize(n, k, s, padding) ==
    IF padding = "VALID" THEN (n - k) \div s + 1 ELSE (n + s - 1) \div s

\* The layer accepts the tensor: declared depth matches, window fits.
LayerAccepts(layer, t) ==
    CASE layer.kind = "ConvLayer" ->
             /\ t.d = layer.in_f
             /\ layer.padding = "VALID" => (t.h >= layer.kh /\ t.w >= layer.kw)
      [] layer.kind = "BatchNormLayer" -> t.d = layer.in_f
      [] layer.kind = "MaxPoolLayer" ->
             layer.padding = "VALID" => (t.h >= layer.kh /\ t.w >= layer.kw)
      [] OTHER -> TRUE

LayerForward(layer, t) ==
    LET windowed == layer.kind \in {"ConvLayer", "MaxPoolLayer"}
        d == IF layer.kind = "ConvLayer" THEN layer.out_f ELSE t.d
    IN [h |-> IF windowed THEN OutSize(t.h, layer.kh, layer.stride, layer.padding) ELSE t.h,
        w |-> IF windowed THEN OutSize(t.w, layer.kw, layer.stride, layer.padding) ELSE t.w,
        d |-> d,
        ch |-> <<[by |-> layer.attr, n |-> d]>>,
        deps |-> t.deps \cup {layer.attr}]

\* tf.concat([a, b], axis=3)
ConcatAccepts(a, b) == a.h = b.h /\ a.w = b.w

Concat(a, b) ==
    [h |-> a.h, w |-> a.w, d |-> a.d + b.d, ch |-> a.ch \o b.ch,
     deps |-> a.deps \cup b.deps]

(***************************************************************************)
(* StemBlock.forward as its list of statements.                            *)
(*   fwd    : reg = self.<attr>.forward(reg[, is_training=is_training])    *)
(*   copy   : SX = FX                                                      *)
(*   concat : FX = tf.concat([first, second], axis=3)                      *)
(*   return : return FX                                                    *)
(* branch is the comment the statement stands under (Left, Right) or Trunk.*)
(***************************************************************************)
Fwd(attr, reg, branch, passes) ==
    [op |-> "fwd", attr |-> attr, reg |-> reg, branch |-> branch, passes |-> passes,
     first |-> "", second |-> ""]

Stmt(op, first, second) ==
    [op |-> op, attr |-> "", reg |-> "FX", branch |-> "", passes |-> FALSE,
     first |-> first, second |-> second]

\* The trunk of forward with activ1 applied a second time in place of activ2.
ForwardChainActiv1Twice ==
    << Fwd("conv1", "FX", "Trunk", TRUE), Fwd("batch_norm1", "FX", "Trunk", TRUE),
       Fwd("activ1", "FX", "Trunk", TRUE),
       Fwd("conv2", "FX", "Trunk", FALSE), Fwd("batch_norm2", "FX", "Trunk", TRUE),
       Fwd("activ1", "FX", "Trunk", TRUE),
       Fwd("conv3", "FX", "Trunk", FALSE), Fwd("batch_norm3", "FX", "Trunk", TRUE),
       Fwd("activ3", "FX", "Trunk", TRUE) >>

\* stem.py lines 136-146
ForwardChain ==
    << Fwd("conv1", "FX", "Trunk", TRUE), Fwd("batch_norm1", "FX", "Trunk", TRUE),
       Fwd("activ1", "FX", "Trunk", TRUE),
       Fwd("conv2", "FX", "Trunk", FALSE), Fwd("batch_norm2", "FX", "Trunk", TRUE),
       Fwd("activ2", "FX", "Trunk", TRUE),
       Fwd("conv3", "FX", "Trunk", FALSE), Fwd("batch_norm3", "FX", "Trunk", TRUE),
       Fwd("activ3", "FX", "Trunk", TRUE) >>

\* stem.py lines 147-157
ForwardSplit1 ==
    << Stmt("copy", "", ""),
       Fwd("maxpool1_L_1", "SX", "Left", TRUE),
       Fwd("conv3_R_1", "FX", "Right", TRUE), Fwd("batch_norm3_R_1", "FX", "Right", TRUE),
       Fwd("activ3_R_1", "FX", "Right", TRUE),
       Stmt("concat", "FX", "SX") >>

\* stem.py lines 159-188
ForwardSplit2 ==
    << Stmt("copy", "", ""),
       Fwd("conv4_L_1", "SX", "Left", TRUE), Fwd("batch_norm4_L_1", "SX", "Left", TRUE),
       Fwd("activ4_L_1", "SX", "Left", TRUE),
       Fwd("conv4_L_2", "SX", "Left", TRUE), Fwd("batch_norm4_L_2", "SX", "Left", TRUE),
       Fwd("activ4_L_2", "SX", "Left", TRUE),
       Fwd("conv4_R_1", "FX", "Right", TRUE), Fwd("batch_norm4_R_1", "FX", "Right", TRUE),
       Fwd("activ4_R_1", "FX", "Right", TRUE),
       Fwd("conv4_R_2", "FX", "Right", TRUE), Fwd("batch_norm4_R_2", "FX", "Right", TRUE),
       Fwd("activ4_R_2", "FX", "Right", TRUE),
       Fwd("conv4_R_3", "FX", "Right", TRUE), Fwd("batch_norm4_R_3", "FX", "Right", TRUE),
       Fwd("activ4_R_3", "FX", "Right", TRUE),
       Fwd("conv4_R_4", "FX", "Right", TRUE), Fwd("batch_norm4_R_4", "FX", "Right", TRUE),
       Fwd("activ4_R_4", "FX", "Right", TRUE),
       Stmt("concat", "FX", "SX") >>

\* Split 3 of forward with the last concatenation's operands swapped.
ForwardSplit3Swapped ==
    << Stmt("copy", "", ""),
       Fwd("conv5_L_1", "SX", "Left", TRUE), Fwd("batch_norm5_L_1", "SX", "Left", TRUE),
       Fwd("activ5_L_1", "SX", "Left", TRUE),
       Fwd("maxpool5_L_1", "FX", "Right", TRUE),
       Stmt("concat", "SX", "FX"),
       Stmt("return", "", "") >>

\* stem.py lines 190-202
ForwardSplit3 ==
    << Stmt("copy", "", ""),
       Fwd("conv5_L_1", "SX", "Left", TRUE), Fwd("batch_norm5_L_1", "SX", "Left", TRUE),
       Fwd("activ5_L_1", "SX", "Left", TRUE),
       Fwd("maxpool5_L_1", "FX", "Right", TRUE),
       Stmt("concat", "FX", "SX"),
       Stmt("return", "", "") >>

ForwardCode == ForwardChain \o ForwardSplit1 \o ForwardSplit2 \o ForwardSplit3

\* The branch label forward applies the layer under ("" for the input X).
BranchOf(attr) ==
    IF \E i \in DOMAIN ForwardCode : ForwardCode[i].op = "fwd" /\ ForwardCode[i].attr = attr
    THEN LET i == CHOOSE i \in DOMAIN ForwardCode :
                      ForwardCode[i].op = "fwd" /\ ForwardCode[i].attr = attr
         IN  ForwardCode[i].branch
    ELSE ""

\* Default of the layers' is_training argument.
DefaultIsTraining == FALSE

(***************************************************************************)
(* StemBlock.to_dict and the reconstruction from its params.               *)
(***************************************************************************)
ActivationNames ==
    [f \in Activations |-> IF f = "tf.nn.relu" THEN "relu" ELSE "sigmoid"]

\* ActivationConverter.activation_to_str
activation_to_str(f) == ActivationNames[f]

\* ActivationConverter.str_to_activation
str_to_activation(s) == CHOOSE f \in Activations : ActivationNames[f] = s

\* to_dict reporting the first convolution's output depth as in_f.
to_dict_wrong_in_f(b) ==
    [type |-> "StemBlock",
     params |-> [name |-> b.name, in_f |-> b.out_f[1], out_f |-> b.out_f,
                 activation |-> activation_to_str(b.f)]]

\* stem.py lines 214-223
to_dict(b) ==
    [type |-> "StemBlock",
     params |-> [name |-> b.name, in_f |-> b.in_f, out_f |-> b.out_f,
                 activation |-> activation_to_str(b.f)]]

\* StemBlock(**params) with the activation converted back from its string
from_dict(d) ==
    StemBlockNew(d.params.in_f, d.params.out_f,
                 str_to_activation(d.params.activation), d.params.name)

NoBlock ==
    [name |-> "", in_f |-> 0, out_f |-> <<>>, f |-> "", layers |-> <<>>,
     named_params_dict |-> <<>>]

NoDict ==
    [type |-> "", params |-> [name |-> "", in_f |-> 0, out_f |-> <<>>, activation |-> ""]]

(***************************************************************************)
(* The StemBlock state machine.                                            *)
(***************************************************************************)
StemIdle ==
    /\ descriptor = NoDict /\ restored = NoBlock /\ ser = "none"
    /\ X = NoTensor /\ is_training = FALSE
    /\ pc = "idle" /\ ip = 0 /\ FX = NoTensor /\ SX = NoTensor
    /\ calls = <<>> /\ concats = <<>> /\ result = NoTensor /\ err = ""

StemUnused == block = NoBlock /\ StemIdle

\* d = block.to_dict()
ToDict ==
    /\ pc \in {"idle", "done"} /\ ser = "none"
    /\ descriptor' = to_dict(block)
    /\ ser' = "described"
    /\ UNCHANGED <<block, restored, X, is_training, pc, ip, FX, SX, calls, concats,
                   result, err>>
    /\ UNCHANGED notStem

\* a block is constructed from the descriptor's params
FromDict ==
    /\ pc \in {"idle", "done"} /\ ser = "described"
    /\ restored' = from_dict(descriptor)
    /\ ser' = "restored"
    /\ UNCHANGED <<block, descriptor, X, is_training, pc, ip, FX, SX, calls, concats,
                   result, err>>
    /\ UNCHANGED notStem

\* block.forward(X, is_training) is entered: FX = X
ForwardCall ==
    /\ pc = "idle"
    /\ \E h \in Sizes, w \in Sizes, d \in InFs, flag \in BOOLEAN :
          /\ X' = InputTensor(h, w, d)
          /\ is_training' = flag
    /\ FX' = X'
    /\ pc' = "run" /\ ip' = 1
    /\ UNCHANGED <<block, descriptor, restored, ser, SX, calls, concats, result, err>>
    /\ UNCHANGED notStem

Cur == ForwardCode[ip]

Reg(r) == IF r = "FX" THEN FX ELSE SX

\* reg = self.<attr>.forward(reg, ...)
ForwardLayer ==
    /\ pc = "run" /\ Cur.op = "fwd"
    /\ LET layer == LayerOf(block, Cur.attr)
           t == Reg(Cur.reg)
           flag == IF Cur.passes THEN is_training ELSE DefaultIsTraining
       IN /\ calls' = Append(calls, [attr |-> Cur.attr, d |-> t.d, deps |-> t.deps,
                                     flag |-> flag])
          /\ IF LayerAccepts(layer, t)
             THEN /\ FX' = IF Cur.reg = "FX" THEN LayerForward(layer, t) ELSE FX
                  /\ SX' = IF Cur.reg = "SX" THEN LayerForward(layer, t) ELSE SX
                  /\ ip' = ip + 1
                  /\ UNCHANGED <<pc, err>>
             ELSE /\ pc' = "error" /\ err' = "ShapeMismatch"
                  /\ UNCHANGED <<FX, SX, ip>>
    /\ UNCHANGED <<block, descriptor, restored, ser, X, is_training, concats, result>>
    /\ UNCHANGED notStem

\* SX = FX
ForwardSplit ==
    /\ pc = "run" /\ Cur.op = "copy"
    /\ SX' = FX
    /\ ip' = ip + 1
    /\ UNCHANGED <<block, descriptor, restored, ser, X, is_training, pc, FX, calls,
                   concats, result, err>>
    /\ UNCHANGED notStem

\* FX = tf.concat([first, second], axis=3)
ForwardConcat ==
    /\ pc = "run" /\ Cur.op = "concat"
    /\ LET a == Reg(Cur.first)
           b == Reg(Cur.second)
       IN IF ConcatAccepts(a, b)
          THEN /\ FX' = Concat(a, b)
               /\ concats' = Append(concats, [first |-> a, second |-> b, out |-> Concat(a, b)])
               /\ ip' = ip + 1
               /\ UNCHANGED <<pc, err>>
          ELSE /\ pc' = "error" /\ err' = "BranchShapeMismatch"
               /\ concats' = Append(concats, [first |-> a, second |-> b, out |-> NoTensor])
               /\ UNCHANGED <<FX, ip>>
    /\ UNCHANGED <<block, descriptor, restored, ser, X, is_training, SX, calls, result>>
    /\ UNCHANGED notStem

\* return FX
ForwardReturn ==
    /\ pc = "run" /\ Cur.op = "return"
    /\ result' = FX
    /\ pc' = "done"
    /\ UNCHANGED <<block, descriptor, restored, ser, X, is_training, ip, FX, SX, calls,
                   concats, err>>
    /\ UNCHANGED notStem

NextStem ==
    \/ ToDict
    \/ FromDict
    \/ ForwardCall
    \/ ForwardLayer
    \/ ForwardSplit
    \/ ForwardConcat
    \/ ForwardReturn

(***************************************************************************)
(* ClassRegHead.__init__: _check_dimensionality, _setup_heads,             *)
(* _make_detections.                                                       *)
(***************************************************************************)
FeatureSources == [h : 1..MaxFeat, w : 1..MaxFeat, d : 1..MaxDepth]
HeadNames == {"0", "head"}

NoError == [kind |-> "", a |-> "", b |-> "", dim_a |-> <<>>, dim_b |-> <<>>]

\* class_reg_head.py lines 92-95: the AssertionError of a failed assert
DimError(a, b, dim_a, dim_b) ==
    [kind |-> "AssertionError", a |-> a, b |-> b, dim_a |-> dim_a, dim_b |-> dim_b]

\* The check with only its first assert, class_f against reg_f.
check_dimensionality_first_pair_only(c, r, hm) ==
    IF ~(c.h = r.h /\ c.w = r.w)
    THEN DimError("class_f", "reg_f", <<c.h, c.w>>, <<r.h, r.w>>)
    ELSE NoError

\* class_reg_head.py lines 87-95: the first assert that fails, NoError if none does
check_dimensionality(c, r, hm) ==
    IF ~(c.h = r.h /\ c.w = r.w)
    THEN DimError("class_f", "reg_f", <<c.h, c.w>>, <<r.h, r.w>>)
    ELSE IF ~(c.h = hm.h /\ c.w = hm.w)
    THEN DimError("class_f", "human_indicator_f", <<c.h, c.w>>, <<hm.h, hm.w>>)
    ELSE IF ~(r.h = hm.h /\ r.w = hm.w)
    THEN DimError("reg_f", "human_indicator_f", <<r.h, r.w>>, <<hm.h, hm.w>>)
    ELSE NoError

\* ReshapeLayer(new_shape, name)
ReshapeLayer(attr, new_shape, name) ==
    [kind |-> "ReshapeLayer", attr |-> attr, name |-> name, new_shape |-> new_shape]

\* class_reg_head.py lines 97-124: the three head layers, in creation order
setup_heads(c, r, hm, n, name) ==
    << ConvLayer("_classification_head", 1, 1, 1, c.d, n, "SAME",
                 "PointsClassifier/" \o name),
       ConvLayer("_human_presence_head", 1, 1, 1, hm.d, 1, "SAME",
                 "PointsClassifier/" \o name),
       ConvLayer("_regression_head", 1, 1, 1, r.d, n * 2, "SAME",
                 "PointsRegressor/" \o name) >>

\* A layer applied to a tensor: the tensor it adds to the graph
HeadTensor(layer, h, w, d) == [by |-> layer.attr, name |-> layer.name, h |-> h, w |-> w, d |-> d]

HeadIdle ==
    /\ hpc = "new" /\ head_layers = <<>> /\ head_tensors = <<>>
    /\ head_params = <<>> /\ herr = NoError

HeadUnused ==
    /\ reg_f = [h |-> 0, w |-> 0, d |-> 0] /\ class_f = reg_f /\ humani_f = reg_f
    /\ n_points = 0 /\ head_name = ""
    /\ HeadIdle

\* self._check_dimensionality()
CheckDimensionality ==
    /\ hpc = "new"
    /\ herr' = check_dimensionality(class_f, reg_f, humani_f)
    /\ hpc' = IF herr' = NoError THEN "checked" ELSE "failed"
    /\ UNCHANGED <<reg_f, class_f, humani_f, n_points, head_name, head_layers,
                   head_tensors, head_params>>
    /\ UNCHANGED notHead

\* self._setup_heads()
SetupHeads ==
    /\ hpc = "checked"
    /\ head_layers' = setup_heads(class_f, reg_f, humani_f, n_points, head_name)
    /\ head_params' = MergeParams(head_layers', head_params)
    /\ hpc' = "heads"
    /\ UNCHANGED <<reg_f, class_f, humani_f, n_points, head_name, head_tensors, herr>>
    /\ UNCHANGED notHead

\* self._make_detections(), class_reg_head.py lines 126-148
MakeDetections ==
    /\ hpc = "heads"
    /\ LET cls == head_layers[1]
           hpi == head_layers[2]
           reg == head_layers[3]
           flat_class == ReshapeLayer("_flat_classification_logits",
                                      <<class_f.h * class_f.w, cls.out_f>>,
                                      head_name \o "/flat_class")
           flat_hpi == ReshapeLayer("_flat_human_presence_logits",
                                    <<humani_f.h * humani_f.w, hpi.out_f>>,
                                    head_name \o "/flat_hpi")
       IN /\ head_layers' = head_layers \o <<flat_class, flat_hpi>>
          /\ head_tensors' =
                << HeadTensor(cls, class_f.h, class_f.w, cls.out_f),
                   HeadTensor(flat_class, class_f.h * class_f.w, 1, cls.out_f),
                   HeadTensor(hpi, humani_f.h, humani_f.w, hpi.out_f),
                   HeadTensor(flat_hpi, humani_f.h * humani_f.w, 1, hpi.out_f),
                   HeadTensor(reg, reg_f.h, reg_f.w, reg.out_f) >>
    /\ hpc' = "done"
    /\ UNCHANGED <<reg_f, class_f, humani_f, n_points, head_name, head_params, herr>>
    /\ UNCHANGED notHead

NextHead ==
    \/ CheckDimensionality
    \/ SetupHeads
    \/ MakeDetections

(***************************************************************************)
(* The training modules: _minimize_maki_loss, _minimize_ce_loss, fit_maki, *)
(* fit_ce.                                                                 *)
(***************************************************************************)
Optimizers == {"opt_a", "opt_b"}
Gammas == 1..MaxGamma
Periods == {-1} \cup 0..MaxPeriod
\* where minimizing raises: nowhere, in optimizer.minimize(...) (the evaluation
\* of its arguments included), or in session.run(variables_initializer(...))
Failures == {"none", "minimize", "init"}

NoOp == [by |-> "None", gamma |-> 0]
NoCall == [kind |-> "", optimizer |-> "None", gamma |-> 0, epochs |-> 0,
           test_period |-> 0, n_batches |-> 0]
NoResult == [train_costs |-> <<>>, train_errors |-> <<>>, test_costs |-> <<>>,
             test_errors |-> <<>>, set |-> FALSE]

\* optimizer.minimize(loss, ...): the train op of this optimizer on this loss
Minimize(optimizer, loss) == [by |-> optimizer, gamma |-> loss]

\* maki_loss.py lines 36-62.  The state of the module after the call and
\* whether the call raised.
minimize_maki_loss(optimizer, global_step, gamma, fail) ==
    LET \* lines 40-41: _prepare_training_vars resets the flag
        built == training_vars_are_ready /\ maki_loss_is_built
        before == [built |-> built, optimizer |-> maki_optimizer,
                   train_op |-> maki_train_op, loss |-> maki_loss, raised |-> FALSE]
    IN  IF ~built
        THEN \* lines 43-52
             LET s1 == [before EXCEPT !.loss = gamma, !.optimizer = optimizer]
                 s2 == [s1 EXCEPT !.train_op = Minimize(optimizer, s1.loss)]
             IN  IF fail = "minimize" THEN [s1 EXCEPT !.raised = TRUE]
                 ELSE IF fail = "init" THEN [s2 EXCEPT !.raised = TRUE]
                 ELSE [s2 EXCEPT !.built = TRUE]
        ELSE IF maki_optimizer # optimizer
        THEN \* lines 54-60
             LET s1 == [before EXCEPT !.optimizer = optimizer]
                 s2 == [s1 EXCEPT !.train_op = Minimize(optimizer, s1.loss)]
             IN  IF fail = "minimize" THEN [s1 EXCEPT !.raised = TRUE]
                 ELSE IF fail = "init" THEN [s2 EXCEPT !.raised = TRUE]
                 ELSE s2
        ELSE before

\* The call reaches a statement that can raise the way fail says.
MakiCanFail(optimizer, fail) ==
    \/ fail = "none"
    \/ ~(training_vars_are_ready /\ maki_loss_is_built)
    \/ maki_optimizer # optimizer

\* _minimize_ce_loss whose _build_ce_loss leaves _ce_loss_is_built unset.
minimize_ce_loss_flag_unset(optimizer, global_step, fail) ==
    LET built == training_vars_are_ready /\ ce_loss_is_built
        before == [built |-> built, optimizer |-> ce_optimizer, train_op |-> ce_train_op,
                   log |-> ce_log, raised |-> FALSE]
        made(s) == [s EXCEPT !.train_op = Minimize(optimizer, 0),
                             !.log.minimizes = @ + 1]
        inited(s) == [s EXCEPT !.log.inits = @ + 1]
        returned(s) == IF s.train_op = NoOp THEN [s EXCEPT !.raised = TRUE] ELSE s
    IN  IF ~built
        THEN LET s1 == [before EXCEPT !.log.builds = @ + 1, !.optimizer = optimizer]
             IN  IF fail = "minimize" THEN [s1 EXCEPT !.raised = TRUE]
                 ELSE IF fail = "init" THEN [made(s1) EXCEPT !.raised = TRUE]
                 ELSE inited(made(s1))
        ELSE IF ce_optimizer # optimizer
        THEN LET s1 == [before EXCEPT !.optimizer = optimizer]
             IN  IF fail = "minimize" THEN [s1 EXCEPT !.raised = TRUE]
                 ELSE IF fail = "init" THEN [made(s1) EXCEPT !.raised = TRUE]
                 ELSE inited(made(s1))
        ELSE returned(before)

\* ce_loss.py lines 19-43.
minimize_ce_loss(optimizer, global_step, fail) ==
    LET built == training_vars_are_ready /\ ce_loss_is_built
        before == [built |-> built, optimizer |-> ce_optimizer, train_op |-> ce_train_op,
                   log |-> ce_log, raised |-> FALSE]
        made(s) == [s EXCEPT !.train_op = Minimize(optimizer, 0),
                             !.log.minimizes = @ + 1]
        inited(s) == [s EXCEPT !.log.inits = @ + 1]
        \* line 43: return self._ce_train_op
        returned(s) == IF s.train_op = NoOp THEN [s EXCEPT !.raised = TRUE] ELSE s
    IN  IF ~built
        THEN \* lines 26-33
             LET s1 == [before EXCEPT !.built = TRUE, !.log.builds = @ + 1,
                                      !.optimizer = optimizer]
             IN  IF fail = "minimize" THEN [s1 EXCEPT !.raised = TRUE]
                 ELSE IF fail = "init" THEN [made(s1) EXCEPT !.raised = TRUE]
                 ELSE inited(made(s1))
        ELSE IF ce_optimizer # optimizer
        THEN \* lines 35-41
             LET s1 == [before EXCEPT !.optimizer = optimizer]
             IN  IF fail = "minimize" THEN [s1 EXCEPT !.raised = TRUE]
                 ELSE IF fail = "init" THEN [made(s1) EXCEPT !.raised = TRUE]
                 ELSE inited(made(s1))
        ELSE returned(before)

CeCanFail(optimizer, fail) ==
    \/ fail = "none"
    \/ ~(training_vars_are_ready /\ ce_loss_is_built)
    \/ ce_optimizer # optimizer

FitInputs(kind) ==
    [kind : {kind}, optimizer : Optimizers, gamma : Gammas, epochs : 0..MaxEpochs,
     test_period : Periods, n_batches : 0..MaxBatches]

\* The state a fit call leaves when _minimize_*_loss raised / when it enters its loop.
FitEntered(c, r) ==
    /\ ncalls' = ncalls + 1
    /\ call' = c
    /\ training_vars_are_ready' = TRUE
    /\ train_op' = IF r.raised THEN NoOp ELSE r.train_op
    /\ fpc' = IF r.raised THEN "raised" ELSE "loop"
    /\ epoch' = 0 /\ iterator' = "None" /\ caught' = FALSE
    /\ train_costs' = <<>> /\ train_errors' = <<>>
    /\ test_costs' = <<>> /\ test_errors' = <<>>
    /\ ret' = NoResult

\* fit_maki(...), maki_loss.py lines 98-109
FitMakiCall ==
    /\ fpc = "idle" /\ ncalls < MaxCalls
    /\ \E c \in FitInputs("maki"), fail \in Failures :
          /\ MakiCanFail(c.optimizer, fail)
          /\ LET r == minimize_maki_loss(c.optimizer, "None", c.gamma, fail)
             IN /\ maki_loss_is_built' = r.built
                /\ maki_optimizer' = r.optimizer
                /\ maki_train_op' = r.train_op
                /\ maki_loss' = r.loss
                /\ FitEntered(c, r)
    /\ ce_loss_is_built' = (training_vars_are_ready /\ ce_loss_is_built)
    /\ UNCHANGED <<ce_optimizer, ce_train_op, ce_log>>
    /\ UNCHANGED notFit

\* fit_ce(...), ce_loss.py lines 79-91
FitCeCall ==
    /\ fpc = "idle" /\ ncalls < MaxCalls
    /\ \E c \in FitInputs("ce"), fail \in Failures :
          /\ c.gamma = 1
          /\ CeCanFail(c.optimizer, fail)
          /\ LET r == minimize_ce_loss(c.optimizer, "None", fail)
             IN /\ ce_loss_is_built' = r.built
                /\ ce_optimizer' = r.optimizer
                /\ ce_train_op' = r.train_op
                /\ ce_log' = r.log
                /\ FitEntered(c, r)
    /\ maki_loss_is_built' = (training_vars_are_ready /\ maki_loss_is_built)
    /\ UNCHANGED <<maki_optimizer, maki_train_op, maki_loss>>
    /\ UNCHANGED notFit

\* One pass of the epoch loop up to the test: shuffle, new iterator, the batches
\* (maki_loss.py lines 112-131, ce_loss.py lines 94-106).  session.run may raise.
TrainEpoch ==
    /\ fpc = "loop" /\ epoch < call.epochs
    /\ iterator' = "open"
    /\ \E raises \in BOOLEAN :
          /\ raises => call.n_batches > 0
          /\ IF raises
             THEN /\ fpc' = "except"
                  /\ UNCHANGED <<train_costs, train_errors>>
             ELSE /\ fpc' = "test"
                  /\ train_costs' = IF call.kind = "maki"
                                    THEN Append(train_costs, epoch) ELSE train_costs
                  /\ train_errors' = IF call.kind = "maki"
                                     THEN Append(train_errors, epoch) ELSE train_errors
    /\ UNCHANGED <<modelVars, ncalls, call, train_op, epoch, test_costs, test_errors,
                   caught, ret>>
    /\ UNCHANGED notFit

\* The rest of the pass: the test of every test_period epochs
\* (maki_loss.py lines 134-141, ce_loss.py lines 109-120).  i % 0 and evaluate
\* may raise.
TestEpoch ==
    /\ fpc = "test"
    /\ IF call.test_period = -1
       THEN /\ fpc' = "loop" /\ epoch' = epoch + 1
            /\ UNCHANGED <<train_costs, train_errors, test_costs, test_errors>>
       ELSE IF call.test_period = 0
       THEN /\ fpc' = "except"
            /\ UNCHANGED <<epoch, train_costs, train_errors, test_costs, test_errors>>
       ELSE IF epoch % call.test_period # 0
       THEN /\ fpc' = "loop" /\ epoch' = epoch + 1
            /\ UNCHANGED <<train_costs, train_errors, test_costs, test_errors>>
       ELSE \E raises \in BOOLEAN :
               IF raises
               THEN /\ fpc' = "except"
                    /\ UNCHANGED <<epoch, train_costs, train_errors, test_costs,
                                   test_errors>>
               ELSE /\ fpc' = "loop" /\ epoch' = epoch + 1
                    /\ test_errors' = Append(test_errors, epoch)
                    /\ test_costs' = Append(test_costs, epoch)
                    /\ train_costs' = IF call.kind = "ce"
                                      THEN Append(train_costs, epoch) ELSE train_costs
                    /\ train_errors' = IF call.kind = "ce"
                                       THEN Append(train_errors, epoch) ELSE train_errors
    /\ UNCHANGED <<modelVars, ncalls, call, train_op, iterator, caught, ret>>
    /\ UNCHANGED notFit

\* The loop ends or the except clause runs; finally closes the iterator and
\* returns the dictionary (maki_loss.py lines 142-149, ce_loss.py lines 121-128).
FitReturn ==
    /\ \/ fpc = "loop" /\ epoch = call.epochs
       \/ fpc = "except"
    /\ caught' = (fpc = "except")
    /\ iterator' = IF iterator # "None" THEN "closed" ELSE iterator
    /\ ret' = [train_costs |-> train_costs, train_errors |-> train_errors,
               test_costs |-> test_costs, test_errors |-> test_errors, set |-> TRUE]
    /\ fpc' = "returned"
    /\ UNCHANGED <<modelVars, ncalls, call, train_op, epoch, train_costs, train_errors,
                   test_costs, test_errors>>
    /\ UNCHANGED notFit

\* The call is over (it returned or raised): its arguments and locals are gone,
\* the model keeps its state.
FitCallOver ==
    /\ fpc \in {"returned", "raised"}
    /\ fpc' = "idle"
    /\ call' = NoCall /\ train_op' = NoOp
    /\ epoch' = 0 /\ iterator' = "None" /\ caught' = FALSE
    /\ train_costs' = <<>> /\ train_errors' = <<>>
    /\ test_costs' = <<>> /\ test_errors' = <<>>
    /\ ret' = NoResult
    /\ UNCHANGED <<modelVars, ncalls>>
    /\ UNCHANGED notFit

NextFit ==
    \/ FitMakiCall
    \/ FitCeCall
    \/ TrainEpoch
    \/ TestEpoch
    \/ FitReturn
    \/ FitCallOver

FitIdle ==
    /\ training_vars_are_ready = FALSE
    /\ maki_loss_is_built = FALSE /\ maki_optimizer = "None" /\ maki_train_op = NoOp
    /\ maki_loss = 0
    /\ ce_loss_is_built = FALSE /\ ce_optimizer = "None" /\ ce_train_op = NoOp
    /\ ce_log = [builds |-> 0, minimizes |-> 0, inits |-> 0]
    /\ ncalls = 0 /\ fpc = "idle" /\ call = NoCall /\ train_op = NoOp
    /\ epoch = 0 /\ iterator = "None" /\ caught = FALSE
    /\ train_costs = <<>> /\ train_errors = <<>> /\ test_costs = <<>> /\ test_errors = <<>>
    /\ ret = NoResult

(***************************************************************************)
(* Regressor: _get_model_info and from_json.                               *)
(***************************************************************************)
\* regressor.py lines 31-33
INPUT == "in_x"
OUTPUT == "out_x"
NAME == "name"

TensorNames == {"Input", "conv1", "fc", "logits"}
ModelNames == {"MakiClassificator", "regressor", "0"}

NoModel == [input |-> "", output |-> "", name |-> ""]
NoFile == [model_info |-> <<>>, graph_info |-> {}]

\* _get_model_info with the input's and the output's names exchanged.
get_model_info_swapped(m) ==
    (INPUT :> m.output) @@ (OUTPUT :> m.input) @@ (NAME :> m.name)

\* regressor.py lines 82-87
get_model_info(m) ==
    (INPUT :> m.input) @@ (OUTPUT :> m.output) @@ (NAME :> m.name)

\* MakiBuilder.restore_graph(outputs, graph_info): name -> restored tensor
restore_graph(outputs, graph_info) == [n \in graph_info |-> n]

\* regressor.py lines 36-48
from_json(file) ==
    LET model_info == file.model_info
        graph_info == file.graph_info
        output_tensor_name == model_info[OUTPUT]
        input_tensor_name == model_info[INPUT]
        model_name == model_info[NAME]
        inputs_outputs == restore_graph({output_tensor_name}, graph_info)
        out_x == inputs_outputs[output_tensor_name]
        in_x == inputs_outputs[input_tensor_name]
    IN  [input |-> in_x, output |-> out_x, name |-> model_name]

\* The model's architecture is written: its model info and its graph.
SaveArchitecture ==
    /\ rpc = "built"
    /\ arch' = [model_info |-> get_model_info(reg_model),
                graph_info |-> {reg_model.input, reg_model.output}]
    /\ rpc' = "saved"
    /\ UNCHANGED <<reg_model, loaded>>
    /\ UNCHANGED notReg

\* Regressor.from_json(path)
FromJson ==
    /\ rpc = "saved"
    /\ loaded' = from_json(arch)
    /\ rpc' = "loaded"
    /\ UNCHANGED <<reg_model, arch>>
    /\ UNCHANGED notReg

NextReg ==
    \/ SaveArchitecture
    \/ FromJson

RegUnused == reg_model = NoModel /\ arch = NoFile /\ loaded = NoModel /\ rpc = "built"

(***************************************************************************)
(* Specifications, one per object.                                         *)
(***************************************************************************)
InitStem ==
    /\ block \in {StemBlockNew(in_f, out_f, f, name) :
                      in_f \in InFs, out_f \in OutFs, f \in Activations, name \in BlockNames}
    /\ StemIdle
    /\ HeadUnused /\ FitIdle /\ RegUnused

InitHead ==
    /\ reg_f \in FeatureSources /\ class_f \in FeatureSources
    /\ humani_f \in FeatureSources
    /\ n_points \in 1..MaxPoints
    /\ head_name \in HeadNames
    /\ HeadIdle
    /\ StemUnused /\ FitIdle /\ RegUnused

InitFit == FitIdle /\ StemUnused /\ HeadUnused /\ RegUnused

InitReg ==
    /\ reg_model \in [input : TensorNames, output : TensorNames, name : ModelNames]
    /\ arch = NoFile /\ loaded = NoModel /\ rpc = "built"
    /\ StemUnused /\ HeadUnused /\ FitIdle

SpecStem == InitStem /\ [][NextStem]_vars

SpecHead == InitHead /\ [][NextHead]_vars

SpecFit == InitFit /\ [][NextFit]_vars

SpecReg == InitReg /\ [][NextReg]_vars

(***************************************************************************)
(* Properties of StemBlock.                                                *)
(***************************************************************************)

\* C1: whenever forward returns, the returned tensor's feature depth is
\* 4 * out_f[2] (the last entry of out_f), whatever in_f and the first two
\* entries of out_f are.
C1_OutputDepth == pc = "done" => result.d = 4 * block.out_f[3]

C1_Witness ==
    /\ pc = "done" /\ block.in_f = 2 /\ block.out_f = <<2, 1, 2>>
    /\ result.d = 8

\* C2: at every concatenation forward reaches, the two tensors joined have
\* the same height and width, and the joined tensor keeps that height and
\* width and has the sum of their depths.
C2_ConcatShapes ==
    \A i \in DOMAIN concats :
        LET c == concats[i]
        IN /\ c.first.h = c.second.h /\ c.first.w = c.second.w
           /\ c.out.h = c.first.h /\ c.out.w = c.first.w
           /\ c.out.d = c.first.d + c.second.d

C2_Witness ==
    /\ pc = "done" /\ Len(concats) = 3
    /\ concats[1].first.d # concats[1].second.d
    /\ X.h # X.w

\* int(x / d) of the docstring: the quotient truncated towards zero
PyInt(x, d) == IF x >= 0 THEN x \div d ELSE -((-x) \div d)

\* stem.py lines 28-33: the docstring's calculate_size, one pass of its loop
RECURSIVE calculate_size_from(_, _, _)
calculate_size_from(i, W, H) ==
    IF i = 5 THEN <<W, H>>
    ELSE LET d == IF (i + 1) % 2 = 1 THEN 2 ELSE 1
         IN calculate_size_from(i + 1,
                                PyInt(W - 3, d) + 1 + ((W - 3) % d),
                                PyInt(H - 3, d) + 1 + ((H - 3) % d))

calculate_size(W, H) == calculate_size_from(0, W, H)

\* C3: whenever forward returns, the returned tensor's width and height
\* are calculate_size(W, H) of the input's width and height.
C3_DocstringSize == pc = "done" => <<result.w, result.h>> = calculate_size(X.w, X.h)

\* The layer that produced a tensor made by one layer.
Producer(t) == t.ch[Len(t.ch)].by

\* C6: at every concatenation of forward the tensor of the branch labelled
\* Right takes the leading channels of the joined tensor and the tensor of
\* the branch labelled Left the trailing ones.
C6_RightBranchFirst ==
    \A i \in DOMAIN concats :
        LET c == concats[i]
        IN c.out # NoTensor =>
             \E right \in {c.first, c.second}, left \in {c.first, c.second} :
                /\ BranchOf(Producer(right)) = "Right"
                /\ BranchOf(Producer(left)) = "Left"
                /\ c.out.ch = right.ch \o left.ch

C6_Witness ==
    /\ pc = "done" /\ Len(concats) = 3
    /\ Producer(concats[3].first) = "maxpool5_L_1"
    /\ Producer(concats[3].second) = "activ5_L_1"

\* C7: the block built from to_dict()'s params has the same to_dict() as the
\* original and holds the same layers (kind, name, kernel, stride, padding,
\* depths, activation) in the same order.
C7_DescriptorRoundTrip ==
    ser = "restored" =>
        /\ to_dict(restored) = to_dict(block)
        /\ restored.layers = block.layers

C7_Witness ==
    /\ ser = "restored" /\ block.in_f # block.out_f[1] /\ block.f = "tf.nn.sigmoid"
    /\ Len(restored.layers) = 35

(***************************************************************************)
(* Properties of ClassRegHead.                                             *)
(***************************************************************************)

\* C4: once the head layers are created, either DuplicateParameterName was
\* reported or every parameter a head layer registered is still held under
\* its name (none overwritten or lost).
C4_DuplicateParameterReported ==
    hpc \in {"heads", "done"} =>
        \/ herr.kind = "DuplicateParameterName"
        \/ \A i \in 1..3 :
              \A k \in DOMAIN LayerParamsDict(head_layers[i]) :
                  head_params[k] = head_layers[i].attr

\* C9: the layers a constructed head holds have pairwise distinct names.
C9_DistinctLayerNames ==
    hpc = "done" =>
        \A i, j \in DOMAIN head_layers :
            i # j => head_layers[i].name # head_layers[j].name

(***************************************************************************)
(* Properties of the training modules.                                     *)
(***************************************************************************)

\* The epochs i of 0..E-1 with i mod p = 0, in order.
TestEpochs(E, p) ==
    SelectSeq([k \in 1..E |-> k - 1], LAMBDA i : i % p = 0)

\* C5: a fit_ce or fit_maki call with test_period >= 1 that returns without
\* a failure returns four lists that each hold one entry per epoch i of
\* 0..epochs-1 with i mod test_period = 0.
C5_OneEntryPerTestPeriod ==
    (fpc = "returned" /\ ~caught /\ call.test_period >= 1) =>
        LET e == TestEpochs(call.epochs, call.test_period)
        IN /\ ret.train_costs = e /\ ret.train_errors = e
           /\ ret.test_costs = e /\ ret.test_errors = e

\* C10: the train op a fit_maki call trains with was made by minimize() of
\* the optimizer passed to that call, and the stored train op is always the
\* product of the stored optimizer.
C10_TrainOpOfPassedOptimizer ==
    /\ (call.kind = "maki" /\ fpc \in {"loop", "test", "except", "returned"}) =>
           train_op.by = call.optimizer
    /\ maki_train_op # NoOp => maki_train_op.by = maki_optimizer

(***************************************************************************)
(* Properties of the Regressor's model information.                        *)
(***************************************************************************)

\* C8 as stated: the model information written to the architecture file has
\* the fields input_name, output_name and model_name.
C8_SpecFieldNames ==
    rpc # "built" => DOMAIN arch.model_info = {"input_name", "output_name", "model_name"}

\* C8 as amended: the model information has the fields in_x, out_x and name,
\* holding the input tensor's name, the output tensor's name and the model's
\* name, and from_json builds its Regressor from those fields.
C8_ModelInfoFields ==
    /\ rpc # "built" =>
          /\ DOMAIN arch.model_info = {"in_x", "out_x", "name"}
          /\ arch.model_info["in_x"] = reg_model.input
          /\ arch.model_info["out_x"] = reg_model.output
          /\ arch.model_info["name"] = reg_model.name
    /\ rpc = "loaded" => loaded = reg_model

C8_Witness ==
    /\ rpc = "loaded" /\ loaded.input = "Input" /\ loaded.output = "logits"
    /\ loaded.name = "regressor"


\* C11: a fit_maki call trains on the Maki loss built with the gamma passed
\* to that call: the loss it runs and the loss its train op minimises both
\* carry the call's gamma.
C11_LossOfPassedGamma ==
    (call.kind = "maki" /\ fpc \in {"loop", "test", "except", "returned"}) =>
        /\ maki_loss = call.gamma
        /\ train_op.gamma = call.gamma


\* A fit_ce call gets through _minimize_ce_loss and enters its loop.
CeCallStep == fpc = "idle" /\ fpc' = "loop" /\ call'.kind = "ce"

\* C12: over the fit_ce calls of one model the cross-entropy loss is built
\* once, on the first call; a call makes a train op and initialises the
\* optimizer's variables once if it is the first call or its optimizer
\* differs from the previous call's, and otherwise returns the stored train
\* op without calling minimize or initialising anything.
C12_CeBuildAndMinimizeSteps ==
    CeCallStep =>
        LET first == ce_log.builds = 0
            changed == first \/ ce_optimizer # call'.optimizer
            n == IF changed THEN 1 ELSE 0
        IN /\ ce_log'.builds = 1
           /\ first <=> ce_log'.builds = ce_log.builds + 1
           /\ ce_log'.minimizes = ce_log.minimizes + n
           /\ ce_log'.inits = ce_log.inits + n
           /\ train_op' = ce_train_op'
           /\ changed => train_op'.by = call'.optimizer
           /\ ~changed => ce_train_op' = ce_train_op

C12_CeBuiltOnceMinimizedOnChange == [][C12_CeBuildAndMinimizeSteps]_vars

C12_Witness ==
    /\ call.kind = "ce" /\ fpc = "loop" /\ ncalls = 3
    /\ ce_log = [builds |-> 1, minimizes |-> 2, inits |-> 2]
    /\ train_op = ce_train_op /\ ce_optimizer = "opt_a"


(***************************************************************************)
(* Further properties of StemBlock.forward.                                *)
(***************************************************************************)

\* The depth a layer declares for its input: in_f of a ConvLayer, D of a
\* BatchNormLayer.
Declares(layer) == layer.kind \in {"ConvLayer", "BatchNormLayer"}

\* C13: forward applies every ConvLayer to a tensor of the layer's declared
\* in_f and every BatchNormLayer to a tensor of its declared D (the block
\* input having depth in_f); conv4_L_1 and conv4_R_1 receive depth
\* out_f[1] + out_f[2] and conv5_L_1 receives depth 2 * out_f[2].
C13_DeclaredDepthMatches ==
    X.d = block.in_f =>
        \A i \in DOMAIN calls :
            LET c == calls[i]
                layer == LayerOf(block, c.attr)
            IN /\ Declares(layer) => c.d = layer.in_f
               /\ c.attr \in {"conv4_L_1", "conv4_R_1"} =>
                      c.d = block.out_f[2] + block.out_f[3]
               /\ c.attr = "conv5_L_1" => c.d = 2 * block.out_f[3]

C13_Witness ==
    /\ pc = "done" /\ Len(calls) = 35 /\ block.out_f = <<1, 2, 1>> /\ block.in_f = 2
    /\ \E i \in DOMAIN calls : calls[i].attr = "conv5_L_1" /\ calls[i].d = 2
    /\ \E i \in DOMAIN calls : calls[i].attr = "conv4_R_1" /\ calls[i].d = 3


\* The attributes held in self.layers.
LayerAttrs(b) == {b.layers[i].attr : i \in DOMAIN b.layers}

\* The number of forward calls made on the layer held under attr.
TimesApplied(attr) == Cardinality({i \in DOMAIN calls : calls[i].attr = attr})

\* C14: a forward that returns has applied every layer of self.layers
\* exactly once, each to a tensor computed from the block input X, and the
\* tensor it returns depends on every one of those layers.
C14_EveryLayerOnce ==
    /\ \A i \in DOMAIN calls :
           /\ calls[i].attr \in LayerAttrs(block)
           /\ "X" \in calls[i].deps
           /\ TimesApplied(calls[i].attr) = 1
    /\ pc = "done" =>
           /\ \A a \in LayerAttrs(block) : TimesApplied(a) = 1
           /\ Len(calls) = Len(block.layers)
           /\ result.deps = LayerAttrs(block) \cup {"X"}

C14_Witness ==
    /\ pc = "done" /\ Len(calls) = 35 /\ Cardinality(LayerAttrs(block)) = 35
    /\ {"activ2", "maxpool1_L_1", "conv5_L_1", "maxpool5_L_1"} \subseteq result.deps


(***************************************************************************)
(* Failures inside the training loop.                                      *)
(***************************************************************************)

\* The epochs 0 .. k-1 completed before a failure in epoch k, as entries.
CompletedEpochs(k) == [i \in 1..k |-> i - 1]

\* The entries of the epochs below k that fall on a test period (none when
\* testing is switched off).
CompletedTests(k, p) == IF p >= 1 THEN TestEpochs(k, p) ELSE <<>>

\* C15: a fit_ce or fit_maki call in which the training step or the
\* evaluation of epoch k raised returns (the exception is caught), has closed
\* the progress iterator, and its dictionary holds exactly what was recorded
\* for the epochs 0 .. k-1 and no entry of epoch k.
C15_FailedEpochLeavesNoEntry ==
    (fpc = "returned" /\ caught /\ call.test_period # 0) =>
        LET k == epoch
            tests == CompletedTests(k, call.test_period)
            trains == IF call.kind = "maki" THEN CompletedEpochs(k) ELSE tests
        IN /\ iterator = "closed"
           /\ ret.set
           /\ ret.train_costs = trains /\ ret.train_errors = trains
           /\ ret.test_costs = tests /\ ret.test_errors = tests


(***************************************************************************)
(* Construction of ClassRegHead with feature sources of different sizes.   *)
(***************************************************************************)

\* The feature source an assert message names.
SourceNamed(n) ==
    CASE n = "class_f" -> class_f
      [] n = "reg_f" -> reg_f
      [] n = "human_indicator_f" -> humani_f

\* (H, W) of a feature source, as the messages print it.
HW(f) == <<f.h, f.w>>

SameHW == HW(class_f) = HW(reg_f) /\ HW(class_f) = HW(humani_f)

\* C16: construction of a ClassRegHead gets past _check_dimensionality only
\* if reg_f, class_f and human_indicator_f have the same height and width;
\* otherwise it fails there with an error naming two sources that differ and
\* the (H, W) of both, and no head layer or tensor has been created.
C16_FailsBeforeAnyHead ==
    /\ hpc \in {"checked", "heads", "done"} => (SameHW /\ herr = NoError)
    /\ (hpc # "new" /\ ~SameHW) => hpc = "failed"
    /\ hpc = "failed" =>
           /\ herr.kind = "AssertionError"
           /\ herr.a \in {"class_f", "reg_f"}
           /\ herr.b \in {"reg_f", "human_indicator_f"}
           /\ herr.a # herr.b
           /\ herr.dim_a = HW(SourceNamed(herr.a))
           /\ herr.dim_b = HW(SourceNamed(herr.b))
           /\ herr.dim_a # herr.dim_b
           /\ head_layers = <<>> /\ head_tensors = <<>> /\ head_params = <<>>

C16_Witness ==
    /\ hpc = "failed" /\ HW(class_f) = HW(reg_f)
    /\ herr = DimError("class_f", "human_indicator_f", <<1, 2>>, <<2, 2>>)
    /\ head_layers = <<>>


(***************************************************************************)
(* The training flag inside StemBlock.forward.                             *)
(***************************************************************************)

\* C17: forward(X, is_training) evaluates every constituent layer with the
\* training flag passed to the block: each layer.forward call it makes
\* carries is_training.
C17_FlagReachesEveryLayer ==
    \A i \in DOMAIN calls : calls[i].flag = is_training

====
